---------------------------- MODULE Spec2Model ----------------------------
(***************************************************************************)
(* Model of the image-resizer page component (src/src/app/page.tsx):       *)
(* the React state of Home() (images, isProcessing, settings), the event   *)
(* handlers onDrop, processImages, downloadAll, removeImage, clearAll, the *)
(* settings inputs, and the per-image onload callbacks of a processImages  *)
(* run that are joined by Promise.all.                                     *)
(*                                                                         *)
(* Strings are sequences of tokens (<<"a", ".", "png">> is "a.png").       *)
(* Browser behaviour the code relies on is modelled from the platform      *)
(* rules: assigning a number to canvas.width/height truncates it to an     *)
(* unsigned long, a canvas with a zero dimension serialises to "data:,",   *)
(* an image that cannot be decoded fires onerror and never onload, and     *)
(* Math.round rounds to the nearest integer with ties towards +infinity.   *)
(***************************************************************************)
EXTENDS Integers, Sequences, FiniteSets

(* ------------------------------ bounds --------------------------------- *)

\* Largest batch the model holds.
MaxImages == 2

\* Most files one drop delivers.
MaxDrop == 2

\* Largest source width and height SpecResize starts from.
MaxDim == 5

(* --------------------------- program values ---------------------------- *)

\* processedSize?: number, while absent.
UndefinedSize == -1

\* processed?: string, while absent.
Undefined == [kind |-> "undefined"]

\* The three values of the format <select>.
Formats == {"image/jpeg", "image/png", "image/webp"}

\* Values the quality range input can deliver (min 10, max 100).
Qualities == {10, 80}

\* Values typed into the max-width number input; it has no min attribute.
MaxWidths == {0, 2, 1920}

\* Byte lengths the browser's encoder may produce for a canvas with pixels.
EncSizes == {4, 9}

\* useState defaults of settings.
DefaultSettings == [maxWidth |-> 1920, quality |-> 80, format |-> "image/jpeg"]

\* Files the user can drop: two decodable images sharing the stem "a" and
\* one file whose bytes do not decode.
Files ==
    { [id |-> 1, name |-> <<"a", ".", "png">>, size |-> 8,
       width |-> 4, height |-> 3, decodable |-> TRUE],
      [id |-> 2, name |-> <<"a", ".", "jpg">>, size |-> 8,
       width |-> 5, height |-> 1, decodable |-> TRUE],
      [id |-> 3, name |-> <<"b", ".", "webp">>, size |-> 8,
       width |-> 0, height |-> 0, decodable |-> FALSE] }

\* No processImages run in flight.
NoRun == [active |-> FALSE]

\* Nothing was handed to saveAs by the step just taken.
NoArchive == [saved |-> FALSE, files |-> <<>>]

\* A promise of the run that has not resolved.
Pending == [kind |-> "pending"]

VARIABLES
    images,        \* useState<ImageFile[]>
    isProcessing,  \* useState(false)
    settings,      \* useState({maxWidth, quality, format})
    run,           \* the in-flight processImages call: its closure and promises
    archive,       \* output: the zip handed to saveAs by the step just taken
    cleared,       \* history: clearAll ran during the current or last run
    order          \* history: positions of the current or last run, in the
                   \* order their onload callbacks ran

vars == <<images, isProcessing, settings, run, archive, cleared, order>>

(* ------------------------------ helpers -------------------------------- *)

\* acceptedFiles.map((file) => ({file, preview, originalSize: file.size}))
NewImage(file) ==
    [file |-> file, preview |-> file.id, originalSize |-> file.size,
     processed |-> Undefined, processedSize |-> UndefinedSize]

\* Truthiness of img.processed: a defined, non-empty string.
Truthy(processed) == processed # Undefined

\* Number -> unsigned long of a quotient num/den (den > 0): truncation
\* towards zero.
TruncDiv(num, den) ==
    IF num >= 0 THEN num \div den ELSE -((-num) \div den)

\* canvas.width = v / canvas.height = v for an integral v: a value outside
\* 0..2^31-1 (every negative one, after the unsigned conversion) resets the
\* attribute to its default.
CanvasDim(v, default) == IF v >= 0 THEN v ELSE default

\* CanvasSize with the comparison turned round: narrower images are scaled.
CanvasSizeScalesNarrow(width, height, maxWidth) ==
    IF width < maxWidth
    THEN [width  |-> CanvasDim(maxWidth, 300),
          height |-> CanvasDim(TruncDiv(height * maxWidth, width), 150)]
    ELSE [width  |-> CanvasDim(width, 300),
          height |-> CanvasDim(height, 150)]

\* CanvasSize with the height left alone when the width is capped.
CanvasSizeKeepsHeight(width, height, maxWidth) ==
    IF width > maxWidth
    THEN [width  |-> CanvasDim(maxWidth, 300),
          height |-> CanvasDim(height, 150)]
    ELSE [width  |-> CanvasDim(width, 300),
          height |-> CanvasDim(height, 150)]

\* Lines 49-57: the canvas size for a decoded image under maxWidth.
CanvasSize(width, height, maxWidth) ==
    IF width > maxWidth
    THEN [width  |-> CanvasDim(maxWidth, 300),
          height |-> CanvasDim(TruncDiv(height * maxWidth, width), 150)]
    ELSE [width  |-> CanvasDim(width, 300),
          height |-> CanvasDim(height, 150)]

\* Length of the padded base64 text of n bytes.
Base64Len(n) == 4 * ((n + 2) \div 3)

\* Math.round(num / den) for den > 0: floor(x + 1/2).
MathRound(num, den) == (2 * num + den) \div (2 * den)

\* settings.format === 'image/png' ? ... : 'image/jpeg'
OutputFormat(format) ==
    IF format = "image/png" THEN "image/png"
    ELSE IF format = "image/webp" THEN "image/webp" ELSE "image/jpeg"

\* canvas.toDataURL(outputFormat, quality / 100): "data:," for a canvas
\* without pixels, else a base64 data URL of `bytes` encoded bytes.
ToDataURL(canvas, outputFormat, bytes, pixels) ==
    IF canvas.width = 0 \/ canvas.height = 0
    THEN [kind |-> "data:,", mime |-> "", base64 |-> 0, bytes |-> 0,
          width |-> canvas.width, height |-> canvas.height, pixels |-> pixels]
    ELSE [kind |-> "data", mime |-> outputFormat, base64 |-> Base64Len(bytes),
          bytes |-> bytes,
          width |-> canvas.width, height |-> canvas.height, pixels |-> pixels]

\* Math.round((base64.length * 3) / 4)
ProcessedSize(dataUrl) == MathRound(dataUrl.base64 * 3, 4)

\* Resolved with the new size written over originalSize as well.
ResolvedOverwritesSize(img, cfg, bytes) ==
    LET canvas  == CanvasSize(img.file.width, img.file.height, cfg.maxWidth)
        dataUrl == ToDataURL(canvas, OutputFormat(cfg.format), bytes,
                             img.file.id)
    IN  [img EXCEPT !.processed = dataUrl,
                    !.processedSize = ProcessedSize(dataUrl),
                    !.originalSize = ProcessedSize(dataUrl)]

\* The value the onload callback resolves its promise with.
Resolved(img, cfg, bytes) ==
    LET canvas  == CanvasSize(img.file.width, img.file.height, cfg.maxWidth)
        dataUrl == ToDataURL(canvas, OutputFormat(cfg.format), bytes,
                             img.file.id)
    IN  [img EXCEPT !.processed = dataUrl,
                    !.processedSize = ProcessedSize(dataUrl)]

\* The values of the promises in the order they resolved in.
PromiseAllByCompletion(results, completion) ==
    [k \in 1..Len(completion) |-> results[completion[k]]]

\* Promise.all: the values of the promises by position, whatever the order
\* they resolved in.
PromiseAll(results, completion) == results

\* Canonical extension downloadAll appends for a format value.
Ext(format) ==
    IF format = "image/png" THEN "png"
    ELSE IF format = "image/webp" THEN "webp" ELSE "jpg"

\* Positions where /\.[^/.]+$/ matches: a "." followed, up to the end, by at
\* least one character, none of them "." or "/".
ExtMatches(name) ==
    { p \in 1..Len(name) :
        /\ name[p] = "."
        /\ p < Len(name)
        /\ \A k \in (p + 1)..Len(name) : name[k] \notin {".", "/"} }

\* name.replace(/\.[^/.]+$/, ''): the leftmost match is removed.
StripExt(name) ==
    IF ExtMatches(name) = {} THEN name
    ELSE LET p == CHOOSE q \in ExtMatches(name) :
                      \A r \in ExtMatches(name) : q <= r
         IN  SubSeq(name, 1, p - 1)

\* img.file.name.replace(...) + `_resized.${ext}`
EntryName(name, format) == StripExt(name) \o <<"_resized", ".", Ext(format)>>

\* zip.file(name, data): adds the entry, replacing one of the same name.
ZipFile(files, name, data) ==
    [n \in (DOMAIN files) \cup {name} |-> IF n = name THEN data ELSE files[n]]

\* images.forEach(...) of downloadAll from position k on: one zip.file call
\* per image with a truthy processed.
RECURSIVE ZipEntries(_, _, _, _)
ZipEntries(imgs, format, k, files) ==
    IF k > Len(imgs) THEN files
    ELSE IF Truthy(imgs[k].processed)
         THEN ZipEntries(imgs, format, k + 1,
                         ZipFile(files, EntryName(imgs[k].file.name, format),
                                 imgs[k].processed))
         ELSE ZipEntries(imgs, format, k + 1, files)

\* Number of images with a truthy processed.
NumProcessed(imgs) ==
    Cardinality({k \in 1..Len(imgs) : Truthy(imgs[k].processed)})

\* The two skins of the page.
Skins == {"classic", "modern"}

\* The literal each skin writes in front of the percentage: "(-" and the
\* downwards arrow.
ReductionMark(skin) == IF skin = "classic" THEN "-" ELSE "down-arrow"

\* {img.processedSize && (<span>mark{Math.round((1 - processedSize /
\* originalSize) * 100)}%</span>)}: the label is rendered for a truthy
\* processedSize (defined and not 0) only.
ReductionLabel(img, skin) ==
    IF img.processedSize # UndefinedSize /\ img.processedSize # 0
    THEN [shown |-> TRUE, mark |-> ReductionMark(skin),
          percent |-> MathRound((img.originalSize - img.processedSize) * 100,
                                img.originalSize)]
    ELSE [shown |-> FALSE, mark |-> "", percent |-> 0]

(* ------------------------------ actions -------------------------------- *)

Init ==
    /\ images = <<>>
    /\ isProcessing = FALSE
    /\ settings = DefaultSettings
    /\ run = NoRun
    /\ archive = NoArchive
    /\ cleared = FALSE
    /\ order = <<>>

\* Sequences of 1..MaxDrop files.
DropSets == UNION { [1..n -> Files] : n \in 1..MaxDrop }

\* onDrop putting the new images in front: [...newImages, ...prev].
onDropInFront(acceptedFiles) ==
    /\ Len(images) + Len(acceptedFiles) <= MaxImages
    /\ images' = [k \in 1..Len(acceptedFiles) |->
                     NewImage(acceptedFiles[k])] \o images
    /\ archive' = NoArchive
    /\ UNCHANGED <<isProcessing, settings, run, cleared, order>>

onDrop(acceptedFiles) ==
    /\ Len(images) + Len(acceptedFiles) <= MaxImages
    /\ images' = images \o [k \in 1..Len(acceptedFiles) |->
                               NewImage(acceptedFiles[k])]
    /\ archive' = NoArchive
    /\ UNCHANGED <<isProcessing, settings, run, cleared, order>>

setMaxWidth(v) ==
    /\ settings' = [settings EXCEPT !.maxWidth = v]
    /\ archive' = NoArchive
    /\ UNCHANGED <<images, isProcessing, run, cleared, order>>

setQuality(q) ==
    /\ settings' = [settings EXCEPT !.quality = q]
    /\ archive' = NoArchive
    /\ UNCHANGED <<images, isProcessing, run, cleared, order>>

setFormat(f) ==
    /\ settings' = [settings EXCEPT !.format = f]
    /\ archive' = NoArchive
    /\ UNCHANGED <<images, isProcessing, run, cleared, order>>

\* The Process button: shown while images[0] is unprocessed, disabled while
\* isProcessing.  The call captures images and settings of its render.
processImages ==
    /\ Len(images) > 0
    /\ ~Truthy(images[1].processed)
    /\ ~isProcessing
    /\ isProcessing' = TRUE
    /\ run' = [active   |-> TRUE,
               images   |-> images,
               settings |-> settings,
               results  |-> [k \in 1..Len(images) |-> Pending]]
    /\ cleared' = FALSE
    /\ order' = <<>>
    /\ archive' = NoArchive
    /\ UNCHANGED <<images, settings>>

\* imgEl.onload of the image at position i of the run; `bytes` is what the
\* encoder produces.  When it resolves the last promise, Promise.all resolves
\* in the same task and the run continues with setImages(processed) and
\* setIsProcessing(false).
imgEl_onload(i, bytes) ==
    /\ run.active
    /\ i \in 1..Len(run.images)
    /\ run.results[i] = Pending
    /\ run.images[i].file.decodable
    /\ archive' = NoArchive
    /\ order' = Append(order, i)
    /\ LET results == [run.results EXCEPT
                          ![i] = Resolved(run.images[i], run.settings, bytes)]
       IN  IF \A k \in 1..Len(results) : results[k] # Pending
           THEN /\ images' = PromiseAll(results, order')
                /\ isProcessing' = FALSE
                /\ run' = NoRun
                /\ UNCHANGED <<settings, cleared>>
           ELSE /\ run' = [run EXCEPT !.results = results]
                /\ UNCHANGED <<images, isProcessing, settings, cleared>>

\* downloadAll offered for every non-empty batch.
downloadAllUnguarded ==
    /\ Len(images) > 0
    /\ archive' = [saved |-> TRUE,
                   files |-> ZipEntries(images, settings.format, 1, <<>>)]
    /\ UNCHANGED <<images, isProcessing, settings, run, cleared, order>>

\* The Download button, shown while images[0] has a truthy processed: builds
\* the zip from the images and settings of its render and saves it.
downloadAll ==
    /\ Len(images) > 0
    /\ Truthy(images[1].processed)
    /\ archive' = [saved |-> TRUE,
                   files |-> ZipEntries(images, settings.format, 1, <<>>)]
    /\ UNCHANGED <<images, isProcessing, settings, run, cleared, order>>

removeImage(index) ==
    /\ index \in 1..Len(images)
    /\ images' = [k \in 1..(Len(images) - 1) |->
                     IF k < index THEN images[k] ELSE images[k + 1]]
    /\ archive' = NoArchive
    /\ UNCHANGED <<isProcessing, settings, run, cleared, order>>

\* The "clear all" button sits in the image list, shown while it is non-empty.
clearAll ==
    /\ Len(images) > 0
    /\ images' = <<>>
    /\ cleared' = (cleared \/ run.active)
    /\ archive' = NoArchive
    /\ UNCHANGED <<isProcessing, settings, run, order>>

Next ==
    \/ \E fs \in DropSets : onDrop(fs)
    \/ \E v \in MaxWidths : setMaxWidth(v)
    \/ \E q \in Qualities : setQuality(q)
    \/ \E f \in Formats : setFormat(f)
    \/ processImages
    \/ \E i \in 1..MaxImages, b \in EncSizes : imgEl_onload(i, b)
    \/ downloadAll
    \/ \E i \in 1..MaxImages : removeImage(i)
    \/ clearAll

Spec == Init /\ [][Next]_vars

\* The browser runs the onload callback of every image it can decode.
FairSpec ==
    /\ Spec
    /\ WF_vars(\E i \in 1..MaxImages, b \in EncSizes : imgEl_onload(i, b))

(* ---------------- batch runs under one fixed configuration -------------- *)

\* Every configuration the settings inputs can produce.
AllSettings == [maxWidth : MaxWidths, quality : Qualities, format : Formats]

InitBatch ==
    /\ images = <<>>
    /\ isProcessing = FALSE
    /\ settings \in AllSettings
    /\ run = NoRun
    /\ archive = NoArchive
    /\ cleared = FALSE
    /\ order = <<>>

NextBatch ==
    \/ \E fs \in DropSets : onDrop(fs)
    \/ processImages
    \/ \E i \in 1..MaxImages, b \in EncSizes : imgEl_onload(i, b)
    \/ downloadAll
    \/ \E i \in 1..MaxImages : removeImage(i)
    \/ clearAll

SpecBatch == InitBatch /\ [][NextBatch]_vars

(* ------------- one run over every source size and max width ------------ *)

\* A decodable w x h image.
SizedFile(w, h) ==
    [id |-> 0, name |-> <<"s", ".", "png">>, size |-> 8,
     width |-> w, height |-> h, decodable |-> TRUE]

InitResize ==
    /\ \E w \in 1..MaxDim, h \in 1..MaxDim :
           images = <<NewImage(SizedFile(w, h))>>
    /\ isProcessing = FALSE
    /\ \E m \in 1..(MaxDim + 1) :
           settings = [DefaultSettings EXCEPT !.maxWidth = m]
    /\ run = NoRun
    /\ archive = NoArchive
    /\ cleared = FALSE
    /\ order = <<>>

NextResize ==
    \/ processImages
    \/ \E b \in EncSizes : imgEl_onload(1, b)

SpecResize == InitResize /\ [][NextResize]_vars

(* ------------------------------- claims -------------------------------- *)

\* C1: every processImages run eventually completes, also when an image of
\* the batch cannot be decoded: isProcessing always returns to false.
C1_RunCompletes == isProcessing ~> ~isProcessing

\* A run in flight whose batch holds an image that does not decode.
C1_RunWithBrokenImage ==
    /\ run.active
    /\ \E k \in 1..Len(run.images) : ~run.images[k].file.decodable

\* C2: the step that completes a run yields one result per image of the run,
\* the result at position k being the processed image of position k,
\* whatever the order the onload callbacks ran in.
C2_ResultsInSourceOrder ==
    [][(run.active /\ ~run'.active) =>
          /\ Len(images') = Len(run.images)
          /\ \A k \in 1..Len(run.images) :
                /\ images'[k].file = run.images[k].file
                /\ Truthy(images'[k].processed)
                /\ images'[k].processed.pixels = run.images[k].file.id]_vars

\* A run over two different images has completed, the callback of the second
\* image having run first.
C2_CompletedOutOfOrder ==
    /\ ~run.active
    /\ Len(order) >= 2
    /\ order[1] > order[2]
    /\ Len(images) = Len(order)
    /\ images[1].file # images[2].file
    /\ \A k \in 1..Len(images) : Truthy(images[k].processed)

\* A configuration the specification accepts.
ValidConfig(cfg) ==
    /\ cfg.maxWidth > 0
    /\ cfg.quality >= 10
    /\ cfg.quality <= 100
    /\ cfg.format \in Formats

\* C3: a run requested under an invalid configuration processes nothing: no
\* step of it resolves an item, gives an image a processed result or saves
\* an archive.
C3_InvalidConfigProcessesNothing ==
    [][(run.active /\ ~ValidConfig(run.settings)) =>
          /\ run'.active
          /\ run'.results = run.results
          /\ \A k \in 1..Len(images') : ~Truthy(images'[k].processed)]_vars

\* A run is in flight under a configuration with a non-positive max width.
C3_RunUnderInvalidConfig ==
    /\ run.active
    /\ run.settings.maxWidth <= 0

\* C4: an image no wider than maxWidth keeps its dimensions exactly.
C4_NarrowImageKeepsDimensions ==
    \A k \in 1..Len(images) :
        (Truthy(images[k].processed)
         /\ images[k].file.width <= settings.maxWidth) =>
            /\ images[k].processed.width = images[k].file.width
            /\ images[k].processed.height = images[k].file.height

\* An image narrower than maxWidth, and taller than wide, has been processed.
C4_NarrowImageProcessed ==
    \E k \in 1..Len(images) :
        /\ Truthy(images[k].processed)
        /\ images[k].file.width < settings.maxWidth
        /\ images[k].file.height > images[k].file.width

\* The larger of two integers.
Max(a, b) == IF a >= b THEN a ELSE b

\* C5: an image wider than maxWidth comes out maxWidth wide and
\* round(height * maxWidth / width) high, rounded half-up, at least 1.
C5_WideImageRoundedHeight ==
    \A k \in 1..Len(images) :
        (Truthy(images[k].processed)
         /\ images[k].file.width > settings.maxWidth) =>
            /\ images[k].processed.width = settings.maxWidth
            /\ images[k].processed.height =
                  Max(1, MathRound(images[k].file.height * settings.maxWidth,
                                   images[k].file.width))

\* An image wider than maxWidth has been processed.
C5_WideImageProcessed ==
    \E k \in 1..Len(images) :
        /\ Truthy(images[k].processed)
        /\ images[k].file.width > settings.maxWidth

\* C6: the archive downloadAll saves has one entry per image of the batch
\* with a processed result.
C6_EntryPerProcessedImage ==
    archive.saved =>
        Cardinality(DOMAIN archive.files) = NumProcessed(images)

\* C7: downloadAll names the entries of two different processed images of
\* the batch differently.
C7_EntryNamesInjective ==
    archive.saved =>
        \A j, k \in 1..Len(images) :
            (j # k /\ Truthy(images[j].processed)
                   /\ Truthy(images[k].processed)) =>
                EntryName(images[j].file.name, settings.format)
                    # EntryName(images[k].file.name, settings.format)

\* C8: once clearAll has run during a run, the completed run leaves no
\* processed result in the batch and no archive is saved from it.
C8_ClearedRunLeavesNothing ==
    (cleared /\ ~run.active) =>
        /\ \A k \in 1..Len(images) : ~Truthy(images[k].processed)
        /\ ~archive.saved

\* C9: every entry of a saved archive carries the extension of the format
\* its bytes were encoded with.
C9_ExtensionMatchesEncoding ==
    archive.saved =>
        \A n \in DOMAIN archive.files :
            archive.files[n].kind = "data" =>
                n[Len(n)] = Ext(archive.files[n].mime)

\* r is x = num/den (den > 0) rounded to the nearest integer, ties upwards:
\* r - 1/2 <= x < r + 1/2.
IsRounded(r, num, den) ==
    /\ 2 * den * r - den <= 2 * num
    /\ 2 * num < 2 * den * r + den

\* C10: both skins report, for every processed image, the percentage
\* round((1 - processedSize / originalSize) * 100); for an output larger than
\* its source the percentage is negative and not marked as a reduction.
C10_ReductionReported ==
    \A k \in 1..Len(images), skin \in Skins :
        Truthy(images[k].processed) =>
            LET label == ReductionLabel(images[k], skin)
            IN  /\ label.shown
                /\ IsRounded(label.percent,
                             (images[k].originalSize
                                 - images[k].processedSize) * 100,
                             images[k].originalSize)
                /\ (images[k].processedSize > images[k].originalSize =>
                       /\ label.percent < 0
                       /\ label.mark \notin {"-", "down-arrow"})

\* C11: the processedSize of every processed image is the exact byte length
\* of its encoded output, the bytes downloadAll stores for it.
C11_ProcessedSizeIsByteLength ==
    \A k \in 1..Len(images) :
        Truthy(images[k].processed) =>
            images[k].processedSize = images[k].processed.bytes

Abs(x) == IF x >= 0 THEN x ELSE -x

\* C13: the output keeps the aspect ratio of the source within one pixel:
\* |outHeight - height * outWidth / width| <= 1, here times width.
C13_AspectRatioWithinOnePixel ==
    \A k \in 1..Len(images) :
        Truthy(images[k].processed) =>
            Abs(images[k].processed.height * images[k].file.width
                - images[k].file.height * images[k].processed.width)
                <= images[k].file.width

\* An image wider than maxWidth whose scaled height is no integer has been
\* processed.
C13_FractionalHeightProcessed ==
    \E k \in 1..Len(images) :
        /\ Truthy(images[k].processed)
        /\ images[k].file.width > settings.maxWidth
        /\ (images[k].file.height * settings.maxWidth)
               % images[k].file.width # 0

\* C14: every image of the batch still has the file, preview and
\* originalSize onDrop created it with; processing adds processed and
\* processedSize only.
C14_SourceDataUnchanged ==
    \A k \in 1..Len(images) :
        /\ images[k].file \in Files
        /\ [images[k] EXCEPT !.processed = Undefined,
                             !.processedSize = UndefinedSize]
               = NewImage(images[k].file)

\* A processed image whose output size differs from its source size is in
\* the batch after an archive was saved.
C14_ProcessedAndDownloaded ==
    /\ archive.saved
    /\ \E k \in 1..Len(images) :
          /\ Truthy(images[k].processed)
          /\ images[k].processedSize # images[k].originalSize

\* C15: the step that completes a run leaves the batch as the edits made
\* during the run left it: the same files at the same positions.
C15_EditsSurviveCompletion ==
    [][(run.active /\ ~run'.active) =>
          /\ Len(images') = Len(images)
          /\ \A k \in 1..Len(images) : images'[k].file = images[k].file]_vars

\* C16: with an unprocessed image in the batch and no run in flight, the
\* Process action is available.
C16_ProcessAvailable ==
    (~isProcessing
     /\ \E k \in 1..Len(images) : ~Truthy(images[k].processed)) =>
        ENABLED processImages

\* C17: no unprocessed image precedes a processed one, and a run in flight
\* was started on unprocessed images only.
C17_ProcessedPrefix ==
    /\ \A j, k \in 1..Len(images) :
          (j < k /\ Truthy(images[k].processed)) =>
              Truthy(images[j].processed)
    /\ run.active =>
          \A k \in 1..Len(run.images) : ~Truthy(run.images[k].processed)

\* The batch holds a processed image followed by an unprocessed one.
C17_MixedBatch ==
    /\ Len(images) >= 2
    /\ Truthy(images[1].processed)
    /\ ~Truthy(images[Len(images)].processed)

=============================================================================
